---- MODULE Spec2Model ----
(***************************************************************************)
(* generate_lst.py: one run of the snapshot tool.                          *)
(*                                                                         *)
(* main() resolves the root and the output file, load_ignore_file() builds *)
(* the PathSpec, get_filtered_paths() walks the root and builds the set of *)
(* included paths, generate_tree_string() renders it, and write_lst()      *)
(* walks the root a second time (iter_source_files) and writes the tagged  *)
(* contents.                                                               *)
(*                                                                         *)
(* A path is the sequence of its segments; the root itself is << >>        *)
(* (Path('.')).  A pattern line is the sequence of its tokens: "!", "/"    *)
(* and segment names.  The matcher is pathspec's "gitwildmatch" (0.10 and  *)
(* later): each line becomes one regular expression, and match_file        *)
(* returns the polarity of the last pattern whose expression matches.      *)
(***************************************************************************)
EXTENDS Integers, Sequences, FiniteSets, TLC

VARIABLES
    files,                  \* regular files below the root (relative paths)
    content,                \* file -> "text" | "binary" | "undecodable"
    lstignore_lines,        \* the lines of <root>/.lstignore when it is a file
    cwd,                    \* Path.cwd(), absolute
    output,                 \* args.output: [abs, path]
    extOut,                 \* the output file exists, when it lies outside the root
    pc,                     \* position of the run
    spec,                   \* the PathSpec: compiled patterns, in order
    todo,                   \* entries root.rglob("*") has still to yield (tree pass)
    included,               \* included_relative_paths
    tree_string,            \* the rendered tree, as its lines
    docTodo,                \* entries root.rglob("*") has still to yield (document pass)
    doc,                    \* tags of the entries written to the document, in order
    written_files_count,
    skipped_binary_count,
    skipped_encoding_count,
    exitStatus              \* -1 while running, else the process exit status

vars == <<files, content, lstignore_lines, cwd, output, extOut, pc, spec, todo,
          included, tree_string, docTodo, doc, written_files_count,
          skipped_binary_count, skipped_encoding_count, exitStatus>>

-----------------------------------------------------------------------------
(* Bounds and input universes *)

MaxFiles == 2

MaxRules == 2

\* The walked root (absolute) and the directories a run may be started from.
Root == <<"w", "proj">>

CwdChoices == {Root, <<"tmp">>}

\* Candidate regular files below the root, besides .lstignore.
CandidateFiles ==
    { <<".git", "config">>, <<"lst.txt">>, <<"out.txt">>, <<"temp">>,
      <<"temp", "keep.txt">>, <<"temp", "sub", "z.txt">>, <<"a", "x.txt">> }

\* Candidate lines of .lstignore.
CandidateRules ==
    { <<"temp", "/">>, <<"!", "temp", "/", "keep.txt">>,
      <<"!", "lst.txt">>, <<"!", ".lstignore">>, <<"!", ".git", "/">> }

\* Candidate values of -o/--output.
OutputChoices ==
    { [abs |-> FALSE, path |-> <<"lst.txt">>],
      [abs |-> FALSE, path |-> <<"out.txt">>],
      [abs |-> TRUE,  path |-> <<"w", "proj", "out.txt">>],
      [abs |-> TRUE,  path |-> <<"tmp", "o", "out.txt">>] }

ContentKinds == {"text", "binary", "undecodable"}

\* Segment names in code-point order, the order Python compares str by.
NameOrder ==
    << ".git", ".lstignore", "a", "config", "keep.txt", "lst.txt",
       "o", "out.txt", "proj", "sub", "temp", "tmp", "w", "x.txt", "z.txt" >>

NameRank(n) == CHOOSE i \in 1..Len(NameOrder) : NameOrder[i] = n

-----------------------------------------------------------------------------
(* pathlib *)

Last(s) == s[Len(s)]

\* Path.parent
Parent(p) == SubSeq(p, 1, Len(p) - 1)

\* PurePath.relative_to succeeds exactly when base is a prefix of p.
IsRelativeTo(p, base) ==
    Len(base) <= Len(p) /\ SubSeq(p, 1, Len(base)) = base

RelativeTo(p, base) == SubSeq(p, Len(base) + 1, Len(p))

\* The strict ancestors of p below the root: the loop `while str(current) != '.'`.
RECURSIVE AncestorsUpTo(_, _)
AncestorsUpTo(current, acc) ==
    IF current = << >> THEN acc
    ELSE AncestorsUpTo(Parent(current), acc \cup {current})

\* Path.__lt__: the tuples of parts compare left to right, a proper prefix first.
RECURSIVE PathLess(_, _)
PathLess(p, q) ==
    IF q = << >> THEN FALSE
    ELSE IF p = << >> THEN TRUE
    ELSE IF Head(p) # Head(q) THEN NameRank(Head(p)) < NameRank(Head(q))
    ELSE PathLess(Tail(p), Tail(q))

\* q lies strictly below d.
Beneath(q, d) == Len(q) > Len(d) /\ SubSeq(q, 1, Len(d)) = d

\* The directories of a file system holding exactly the files fs.
DirsOf(fs) == UNION { AncestorsUpTo(Parent(f), {}) : f \in fs }

\* Everything root.rglob("*") yields.
Entries(fs) == fs \cup DirsOf(fs)

-----------------------------------------------------------------------------
(* pathspec: PathSpec.from_lines("gitwildmatch", patterns) and match_file *)

IsSegment(t) == t # "/"

\* One pattern line compiled: negation, directory-only (trailing "/"),
\* anchored (leading or inner "/"), and its segments.
CompilePattern(line) ==
    LET neg   == Len(line) > 0 /\ line[1] = "!"
        body  == IF neg THEN Tail(line) ELSE line
        lead  == Len(body) > 0 /\ body[1] = "/"
        trail == Len(body) > 1 /\ Last(body) = "/"
        segs  == SelectSeq(body, IsSegment)
    IN  [neg |-> neg, dirOnly |-> trail,
         anchored |-> lead \/ Len(segs) > 1, segs |-> segs]

\* The pattern's regular expression against the string `segs joined by "/"`,
\* followed by "/" when slash: ^(?:.+/)?seg.../.*$ for a directory-only
\* pattern, ^(?:.+/)?seg...(?:/.*)?$ otherwise, without (?:.+/)? when anchored.
PatternMatches(pat, segs, slash) ==
    LET n == Len(pat.segs)
        m == Len(segs)
        starts == IF pat.anchored THEN {0} ELSE 0..m
    IN  /\ n > 0
        /\ \E k \in starts :
              /\ k + n <= m
              /\ \A i \in 1..n : pat.segs[i] = segs[k + i]
              /\ pat.dirOnly => (k + n < m \/ slash)

\* PathSpec.match_file: the last matching pattern decides.
match_file(patterns, segs, slash) ==
    LET hits == { i \in 1..Len(patterns) : PatternMatches(patterns[i], segs, slash) }
    IN  /\ hits # {}
        /\ ~ patterns[CHOOSE i \in hits : \A j \in hits : j <= i].neg

-----------------------------------------------------------------------------
(* load_ignore_file *)

default_ignores == << <<".git", "/">>, <<".lstignore">>, <<"lst.txt">> >>

LstIgnorePath == <<".lstignore">>

CompileAll(lines) == [i \in 1..Len(lines) |-> CompilePattern(lines[i])]

\* A slip: the defaults put before the user's lines.
load_ignore_file_DefaultsFirst(fs, lines) ==
    LET patterns == IF LstIgnorePath \in fs THEN lines ELSE << >>
    IN  CompileAll(default_ignores \o patterns)

\* patterns = the file's lines (none when it is no file), then the defaults.
load_ignore_file(fs, lines) ==
    LET patterns == IF LstIgnorePath \in fs THEN lines ELSE << >>
    IN  CompileAll(patterns \o default_ignores)

-----------------------------------------------------------------------------
(* is_binary, get_filtered_paths *)

output_filename == "lst.txt"

is_binary(path) == path \in files /\ content[path] = "binary"

\* Lines 66-70: the entry is skipped before its kind is looked at.
TreeSkips(p) ==
    \/ match_file(spec, p, FALSE)
    \/ match_file(spec, p, TRUE)
    \/ (Last(p) = output_filename /\ Parent(p) = << >>)

\* A slip: the loop over the ancestors stops after the parent.
AddIncluded_ParentOnly(inc, p) ==
    inc \cup {p} \cup (IF Parent(p) = << >> THEN {} ELSE {Parent(p)})

\* A slip: the set is assigned instead of added to.
AddIncluded_Overwrite(inc, p) == {p} \cup AncestorsUpTo(Parent(p), {})

\* Lines 74-78: the file and every strict ancestor below the root.
AddIncluded(inc, p) == inc \cup {p} \cup AncestorsUpTo(Parent(p), {})

\* A slip: the binary test left out of the tree pass.
TreeKeepsFile_AnyFile(p) == p \in files

\* Lines 71-72: only a regular file that is not binary is added.
TreeKeepsFile(p) == p \in files /\ ~ is_binary(p)

\* One iteration of the loop of get_filtered_paths.
FilterVisit(inc, p) ==
    IF TreeSkips(p) THEN inc
    ELSE IF TreeKeepsFile(p) THEN AddIncluded(inc, p)
    ELSE inc

-----------------------------------------------------------------------------
(* generate_tree_string *)

\* The pieces a line of the tree is concatenated from ('    ', the bar
\* followed by three spaces, the corner and the branch connectors).
Space4 == "    "

Bar == "|   "

Corner == "+-- "

Branch == "|-- "

RootName == Last(Root)

NothingNote == "(nothing to include)"

\* sorted(list(included_relative_paths))
RECURSIVE SortedPaths(_)
SortedPaths(S) ==
    IF S = {} THEN << >>
    ELSE LET least == CHOOSE x \in S : \A y \in S \ {x} : PathLess(x, y)
         IN  <<least>> \o SortedPaths(S \ {least})

\* parent_map[parent]: the children of parent, in sorted order.
ChildrenOf(sorted, parent) ==
    LET HasParent(q) == Parent(q) = parent
    IN  SelectSeq(sorted, HasParent)

\* last_items: children[-1] of every parent of parent_map.
LastItems(sorted) ==
    { Last(ChildrenOf(sorted, Parent(sorted[i]))) : i \in 1..Len(sorted) }

\* A slip: the path's own last-child flag used for each of its ancestors.
PrefixOf_OwnFlag(path, last_items) ==
    [j \in 1..(Len(path) - 1) |->
        IF path \in last_items THEN Space4 ELSE Bar]

\* Lines 110-123: one piece per strict ancestor, from the top down.
PrefixOf(path, last_items) ==
    [j \in 1..(Len(path) - 1) |->
        IF SubSeq(path, 1, j) \in last_items THEN Space4 ELSE Bar]

\* Line 124
ConnectorOf(path, last_items) ==
    IF path \in last_items THEN Corner ELSE Branch

TreeLine(path, last_items) ==
    PrefixOf(path, last_items) \o <<ConnectorOf(path, last_items), Last(path)>>

\* The returned string as the sequence of its lines (split at "\n"); the
\* fallback ends in a newline, so its last line is empty.
generate_tree_string(inc) ==
    IF inc = {} THEN << <<RootName, "/">>, <<NothingNote>>, << >> >>
    ELSE LET sorted_paths == SortedPaths(inc)
             last_items   == LastItems(sorted_paths)
         IN  << <<RootName, "/">> >> \o
             [i \in 1..Len(sorted_paths) |-> TreeLine(sorted_paths[i], last_items)]

-----------------------------------------------------------------------------
(* main: the output file *)

\* Lines 250-253
Outfile == IF output.abs THEN output.path ELSE cwd \o output.path

OutInRoot == IsRelativeTo(Outfile, Root) /\ Len(Outfile) > Len(Root)

OutRel == RelativeTo(Outfile, Root)

OutfileExists == IF OutInRoot THEN OutRel \in files ELSE extOut

-----------------------------------------------------------------------------
(* iter_source_files and the loop body of write_lst *)

\* Lines 138-150: the entries iter_source_files does not yield.
DocSkips(p) ==
    \/ p \notin files
    \/ match_file(spec, p, FALSE)
    \/ (Last(p) = ".lstignore" /\ Parent(p) = << >>)
    \/ (Last(p) = output_filename /\ Parent(p) = << >>)

\* What happens to an entry the document pass visits.
DocFate(p) ==
    IF DocSkips(p) THEN "not_yielded"
    ELSE IF is_binary(p) THEN "binary"
    ELSE IF content[p] = "undecodable" THEN "encoding"
    ELSE "written"

-----------------------------------------------------------------------------
(* Initial states: the inputs of one run *)

\* At most MaxFiles candidate files, none of them below another (temp is a
\* regular file or a directory).
FileSets ==
    { fs \in SUBSET CandidateFiles :
        /\ Cardinality(fs) <= MaxFiles
        /\ \A f, g \in fs : ~ Beneath(g, f) }

\* The file sets made of files that some candidate or default rule can match;
\* the files no rule matches (out.txt, a/x.txt) fare alike under every .lstignore.
RuleFileSets == { fs \in FileSets : fs \cap {<<"out.txt">>, <<"a", "x.txt">>} = {} }

RuleLists == UNION { [1..n -> CandidateRules] : n \in 0..MaxRules }

DefaultOutput == [abs |-> FALSE, path |-> <<output_filename>>]

AllText(fs) == [f \in fs |-> "text"]

\* Not yet started: nothing loaded, walked, rendered or written.
Idle ==
    /\ extOut = FALSE
    /\ pc = "main"
    /\ spec = << >>
    /\ todo = {}
    /\ included = {}
    /\ tree_string = << >>
    /\ docTodo = {}
    /\ doc = << >>
    /\ written_files_count = 0
    /\ skipped_binary_count = 0
    /\ skipped_encoding_count = 0
    /\ exitStatus = -1

\* Runs from the root with the default output, over any files and any .lstignore.
InitRules ==
    /\ \E fs \in RuleFileSets, lines \in RuleLists :
          /\ files = fs \cup {LstIgnorePath}
          /\ lstignore_lines = lines
    /\ content = AllText(files)
    /\ cwd = Root
    /\ output = DefaultOutput

\* Runs without .lstignore over files of any content.
InitContent ==
    /\ files \in FileSets
    /\ content \in [files -> ContentKinds]
    /\ lstignore_lines = << >>
    /\ cwd = Root
    /\ output = DefaultOutput

\* Runs without .lstignore from any directory to any output file.
InitArgs ==
    /\ files \in FileSets
    /\ content = AllText(files)
    /\ lstignore_lines = << >>
    /\ cwd \in CwdChoices
    /\ output \in OutputChoices

Init == (InitRules \/ InitContent \/ InitArgs) /\ Idle

-----------------------------------------------------------------------------
(* Actions *)

Inputs == <<lstignore_lines, cwd, output>>

TreeState == <<spec, todo, included, tree_string>>

DocState == <<docTodo, doc, written_files_count, skipped_binary_count,
              skipped_encoding_count>>

FileSystem == <<files, content, extOut>>

\* main, lines 236-261: the root is a directory; the output directory is
\* created, or the run ends with status 1.
main ==
    /\ pc = "main"
    /\ \E mkdirOk \in BOOLEAN :
          IF mkdirOk
          THEN pc' = "load" /\ exitStatus' = exitStatus
          ELSE pc' = "exit" /\ exitStatus' = 1
    /\ UNCHANGED <<Inputs, FileSystem, TreeState, DocState>>

\* main, line 264, and the start of get_filtered_paths (lines 57-59).
load ==
    /\ pc = "load"
    /\ spec' = load_ignore_file(files, lstignore_lines)
    /\ included' = {}
    /\ todo' = Entries(files)
    /\ pc' = "tree_walk"
    /\ UNCHANGED <<Inputs, FileSystem, tree_string, DocState, exitStatus>>

\* get_filtered_paths, lines 59-83: one entry of the walk, in any order.
get_filtered_paths_step ==
    /\ pc = "tree_walk"
    /\ \E p \in todo :
          /\ included' = FilterVisit(included, p)
          /\ todo' = todo \ {p}
    /\ UNCHANGED <<Inputs, FileSystem, spec, tree_string, DocState, pc, exitStatus>>

\* generate_tree_string, lines 89-126, once the walk has ended.
render ==
    /\ pc = "tree_walk"
    /\ todo = {}
    /\ tree_string' = generate_tree_string(included)
    /\ pc' = "write_open"
    /\ UNCHANGED <<Inputs, FileSystem, spec, todo, included, DocState, exitStatus>>

\* The handler of write_lst, lines 201-209: the partial file is removed when
\* it exists and can be removed, and the run ends with status 1; the walk
\* is abandoned.
Handler ==
    /\ docTodo' = {}
    /\ \E unlinkOk \in BOOLEAN :
          IF OutfileExists /\ unlinkOk
          THEN IF OutInRoot
               THEN /\ files' = files \ {OutRel}
                    /\ content' = [f \in files \ {OutRel} |-> content[f]]
                    /\ extOut' = extOut
               ELSE /\ extOut' = FALSE
                    /\ UNCHANGED <<files, content>>
          ELSE UNCHANGED FileSystem
    /\ pc' = "exit"
    /\ exitStatus' = 1

\* outfile.open("w"): the file exists and is empty.
CreateOutfile ==
    IF OutInRoot
    THEN /\ files' = files \cup {OutRel}
         /\ content' = [f \in files \cup {OutRel} |->
                           IF f = OutRel THEN "text" ELSE content[f]]
         /\ extOut' = extOut
    ELSE /\ extOut' = TRUE
         /\ UNCHANGED <<files, content>>

\* write_lst, lines 154-165: the message of line 154 is formatted outside the
\* try; then the file is opened, the tree is written and the walk starts.
write_lst_open ==
    /\ pc = "write_open"
    /\ IF ~ IsRelativeTo(Outfile, cwd)
       THEN /\ pc' = "crashed"
            /\ exitStatus' = 1
            /\ UNCHANGED <<FileSystem, DocState>>
       ELSE \E openOk \in BOOLEAN :
               IF openOk
               THEN /\ CreateOutfile
                    /\ docTodo' = Entries(files')
                    /\ pc' = "doc_walk"
                    /\ UNCHANGED <<doc, written_files_count, skipped_binary_count,
                                   skipped_encoding_count, exitStatus>>
               ELSE /\ Handler
                    /\ UNCHANGED <<doc, written_files_count, skipped_binary_count,
                                   skipped_encoding_count>>
    /\ UNCHANGED <<Inputs, TreeState>>

\* write_lst, lines 165-195: one entry of the second walk, in any order.
write_lst_step ==
    /\ pc = "doc_walk"
    /\ \E p \in docTodo :
          LET fate == DocFate(p) IN
          \E writeOk \in (IF fate = "written" THEN BOOLEAN ELSE {TRUE}) :
                IF writeOk
                THEN /\ docTodo' = docTodo \ {p}
                     /\ doc' = IF fate = "written" THEN Append(doc, p) ELSE doc
                     /\ written_files_count' =
                           written_files_count + (IF fate = "written" THEN 1 ELSE 0)
                     /\ skipped_binary_count' =
                           skipped_binary_count + (IF fate = "binary" THEN 1 ELSE 0)
                     /\ skipped_encoding_count' =
                           skipped_encoding_count + (IF fate = "encoding" THEN 1 ELSE 0)
                     /\ UNCHANGED <<FileSystem, pc, exitStatus>>
                ELSE /\ Handler
                     /\ UNCHANGED <<doc, written_files_count, skipped_binary_count,
                                    skipped_encoding_count>>
    /\ UNCHANGED <<Inputs, TreeState>>

\* write_lst, lines 196-200, and main, lines 275-279: the run ends normally.
write_lst_close ==
    /\ pc = "doc_walk"
    /\ docTodo = {}
    /\ pc' = "done"
    /\ exitStatus' = 0
    /\ UNCHANGED <<Inputs, FileSystem, TreeState, DocState>>

Next ==
    \/ main
    \/ load
    \/ get_filtered_paths_step
    \/ render
    \/ write_lst_open
    \/ write_lst_step
    \/ write_lst_close

Spec == Init /\ [][Next]_vars

-----------------------------------------------------------------------------
(* Vocabulary of the properties *)

Range(s) == { s[i] : i \in 1..Len(s) }

\* The PathSpec has been built (it always holds the default patterns).
Loaded == spec # << >>

\* get_filtered_paths has returned and the file system is still as it walked it.
TreeBuilt == pc = "write_open"

\* The matcher reports the path as ignored, as a file or as a directory.
Ignored(p) == match_file(spec, p, FALSE) \/ match_file(spec, p, TRUE)

\* Segment-wise lexicographic order: at the first position where the paths
\* differ, p has run out or has the smaller segment.
SegLess(p, q) ==
    \E i \in 1..Len(q) :
        /\ \A j \in 1..(i - 1) : j <= Len(p) /\ p[j] = q[j]
        /\ i - 1 <= Len(p)
        /\ (i = Len(p) + 1 \/ NameRank(p[i]) < NameRank(q[i]))

\* p is the greatest path of S among those sharing its parent.
LastChild(S, p) ==
    ~ \E q \in S : Parent(q) = Parent(p) /\ SegLess(p, q)

\* The line the tree shows for p among the paths S.
ExpectedLine(S, p) ==
    [j \in 1..(Len(p) - 1) |->
        IF LastChild(S, SubSeq(p, 1, j)) THEN Space4 ELSE Bar]
    \o << IF LastChild(S, p) THEN Corner ELSE Branch, Last(p) >>

\* The walk of get_filtered_paths taken in the order of a given sequence.
RECURSIVE WalkInOrder(_, _)
WalkInOrder(order, inc) ==
    IF order = << >> THEN inc
    ELSE WalkInOrder(Tail(order), FilterVisit(inc, Head(order)))

-----------------------------------------------------------------------------
(* Properties *)

\* C1: the tree pass and the document pass make the same ignore decision for
\* every file, and every file written to the document is in the tree's
\* inclusion set.
C1_PassesAgree ==
    Loaded =>
        /\ \A p \in files : TreeSkips(p) <=> DocSkips(p)
        /\ \A p \in Range(doc) : p \in included

\* C2 as stated: once the tree pass has ended, a binary file the rules do not
\* ignore is in the inclusion set with its ancestors, and is never in the
\* document.
C2_BinaryInTreeOnly ==
    (TreeBuilt \/ pc \in {"doc_walk", "done"}) =>
        \A p \in files :
            (is_binary(p) /\ ~ TreeSkips(p)) =>
                /\ p \in included
                /\ AncestorsUpTo(Parent(p), {}) \subseteq included
                /\ p \notin Range(doc)

\* C2 amended: a binary file is in neither the inclusion set nor the
\* document, and every directory of the inclusion set holds an included file.
C2_BinaryInNeither ==
    /\ \A p \in files : is_binary(p) => (p \notin included /\ p \notin Range(doc))
    /\ TreeBuilt =>
          \A d \in included \ files : \E f \in included \cap files :
              Beneath(f, d) /\ ~ is_binary(f)

C2_Witness ==
    /\ pc = "done"
    /\ skipped_binary_count > 0
    /\ included # {}
    /\ \E p \in files : is_binary(p) /\ ~ TreeSkips(p) /\ Len(p) > 1

\* C3: at every point of the walk the inclusion set holds every strict
\* ancestor, below the root, of each of its paths, and never the root.
C3_AncestorClosure ==
    /\ \A p \in included : \A j \in 1..(Len(p) - 1) : SubSeq(p, 1, j) \in included
    /\ << >> \notin included

C3_Witness ==
    /\ pc = "tree_walk"
    /\ todo # {}
    /\ \E p \in included \cap files : Len(p) = 3

\* C4: whatever order the walk took, the inclusion set and the rendered tree
\* are those of the walk taken in sorted order.
C4_OrderIndependence ==
    TreeBuilt =>
        LET ref == WalkInOrder(SortedPaths(Entries(files)), {})
        IN  /\ included = ref
            /\ tree_string = generate_tree_string(ref)

C4_Witness ==
    /\ TreeBuilt
    /\ Cardinality(included \cap files) >= 2
    /\ \E p \in files : p \notin included

\* C5: the tree is the root line followed by one line per included path in
\* segment-wise lexicographic order; the connector is the corner exactly for
\* the last child of its parent, and the prefix has four spaces exactly for
\* the ancestors that are last children, the bar otherwise.
C5_TreeLines ==
    (pc \notin {"main", "load", "tree_walk"} /\ included # {}) =>
        /\ Len(tree_string) = Cardinality(included) + 1
        /\ tree_string[1] = <<RootName, "/">>
        /\ \A p \in included :
              tree_string[2 + Cardinality({ q \in included : SegLess(q, p) })]
                  = ExpectedLine(included, p)

C5_Witness ==
    /\ TreeBuilt
    /\ \E i, j, k \in 2..Len(tree_string) :
          /\ Bar \in Range(tree_string[i])
          /\ Corner \in Range(tree_string[j])
          /\ Branch \in Range(tree_string[k])

\* C6: under the single rule temp/ a regular text file named temp is in the
\* inclusion set once the tree pass has ended, and in the document once the
\* run has ended.
C6_DirectoryOnlyRule ==
    (/\ LstIgnorePath \in files
     /\ lstignore_lines = << <<"temp", "/">> >>
     /\ <<"temp">> \in files
     /\ content[<<"temp">>] = "text") =>
        /\ (TreeBuilt \/ pc \in {"doc_walk", "done"}) => <<"temp">> \in included
        /\ pc = "done" => <<"temp">> \in Range(doc)

\* C7: no path of the inclusion set is reported as ignored by the matcher,
\* and nothing beneath a directory the matcher ignores is in the set.
C7_NoResurrection ==
    Loaded =>
        /\ \A q \in included : ~ Ignored(q)
        /\ \A d \in DirsOf(files) :
              Ignored(d) => \A q \in included : q # d /\ ~ Beneath(q, d)

\* C8: whatever the user rules, nothing of the root's .git directory, nor the
\* root's .lstignore, nor the root's lst.txt is in the inclusion set or in
\* the document.
Protected(p) ==
    \/ p[1] = ".git"
    \/ p = <<".lstignore">>
    \/ p = <<"lst.txt">>

C8_DefaultsWin ==
    \A p \in included \cup Range(doc) : ~ Protected(p)

C8_Witness ==
    /\ pc = "done"
    /\ <<"!", ".lstignore">> \in Range(lstignore_lines)
    /\ <<"!", ".git", "/">> \in Range(lstignore_lines)
    /\ {<<".git", "config">>, <<".lstignore">>, <<"lst.txt">>} \subseteq files
    /\ doc # << >>

\* C9: an output file inside the root is never in the inclusion set and never
\* written to the document.
C9_OutputExcluded ==
    OutInRoot => (OutRel \notin included /\ OutRel \notin Range(doc))

\* C10: a run that has ended ended either normally, or with status 1 through
\* main's or write_lst's handlers; write_lst is never left any other way.
C10_WriteLstEnds ==
    exitStatus # -1 =>
        \/ (pc = "done" /\ exitStatus = 0)
        \/ (pc = "exit" /\ exitStatus = 1)

====
